---- MODULE Spec2Model ----
(***************************************************************************)
(* Model of pkg/bpf/map.go: the BPF map type enumeration, the per-type     *)
(* facts (String, allowsPreallocation, requiresPreallocation), the kernel  *)
(* feature probing (ReadFeatureProbes) that fills the process-wide table   *)
(* supportedMapTypes, and the fallback resolution GetMapType.              *)
(*                                                                         *)
(* The error-resolver controller that consumes maxSyncErrors is not part   *)
(* of the file; it is modelled in the second half of the module from the   *)
(* design description (section "Reconciliation Engine").                   *)
(***************************************************************************)
EXTENDS Integers, Sequences, FiniteSets, TLC

(***************************************************************************)
(* type MapType int, and its iota enumeration.                             *)
(***************************************************************************)
MapTypeUnspec == 0
MapTypeHash == 1
MapTypeArray == 2
MapTypeProgArray == 3
MapTypePerfEventArray == 4
MapTypePerCPUHash == 5
MapTypePerCPUArray == 6
MapTypeStackTrace == 7
MapTypeCgroupArray == 8
MapTypeLRUHash == 9
MapTypeLRUPerCPUHash == 10
MapTypeLPMTrie == 11
MapTypeArrayOfMaps == 12
MapTypeHashOfMaps == 13
MapTypeDevMap == 14
MapTypeSockMap == 15
MapTypeCPUMap == 16
MapTypeXSKMap == 17
MapTypeSockHash == 18
MapTypeMaximum == 19

\* Variant: the ceiling one lower.
maxSyncErrorsOffByOne == 512 - 1

maxSyncErrors == 512

\* How far outside the enumeration the MapType arguments of the calls range
\* (MapType is an int: any value can be passed).
OutOfRange == 2

\* Longest probe file, in lines.
MaxLines == 2

\* The values of the enumeration, Unspec through SockHash.
MapKinds == MapTypeUnspec..(MapTypeMaximum - 1)

\* The MapType values the calls are made with.
MapTypeArgs == (MapTypeUnspec - OutOfRange)..(MapTypeMaximum - 1 + OutOfRange)

(***************************************************************************)
(* The lines a probe file is made of, as bufio.Scanner delivers them (the  *)
(* line terminator stripped).  LongLine stands for a line longer than the  *)
(* scanner's token limit (bufio.MaxScanTokenSize, 64 KiB): Scan() returns  *)
(* false on it and the loop ends.                                          *)
(***************************************************************************)
LpmLine == "#define HAVE_LPM_MAP_TYPE"
LruLine == "#define HAVE_LRU_MAP_TYPE"
LongLine == "<line longer than bufio.MaxScanTokenSize>"
FileLines == {LpmLine, LruLine, "", "#define HAVE_LPM_MAP_TYPE 1", LongLine}

RECURSIVE SeqsUpTo(_, _)
SeqsUpTo(S, n) ==
  IF n = 0 THEN {<<>>}
  ELSE LET shorter == SeqsUpTo(S, n - 1)
       IN  shorter \cup {Append(s, x) : s \in {q \in shorter : Len(q) = n - 1}, x \in S}

\* The probe files: their contents, line by line.
Files == SeqsUpTo(FileLines, MaxLines)

VARIABLES
  supportedMapTypes, \* var supportedMapTypes map[MapType]bool
  alive,             \* FALSE once log.Fatal has ended the process
  input,             \* contents of the file of the last ReadFeatureProbes
  prevTable,         \* supportedMapTypes when the last ReadFeatureProbes began
  loaded,            \* a ReadFeatureProbes has run to completion
  repeated,          \* the last ReadFeatureProbes read the same input as the one before it
  fn,                \* the function last called
  arg,               \* its MapType argument
  ret,               \* its return value
  mstate,            \* per map: "Idle", "Scheduled", "Running" or "Failed"
  errorCount,        \* per map: the error counter
  cache,             \* per map: key -> DesiredAction
  timers,            \* per map: armed timers of the error resolver
  passes             \* per map: reconciliation passes in progress

featureVars == <<supportedMapTypes, alive, input, prevTable, loaded, repeated>>
callVars == <<fn, arg, ret>>
syncVars == <<mstate, errorCount, cache, timers, passes>>
vars == <<featureVars, callVars, syncVars>>

\* make(map[MapType]bool)
EmptyTable == << >>

\* m[k] = v on a Go map
Put(m, k, v) == [x \in (DOMAIN m) \cup {k} |-> IF x = k THEN v ELSE m[x]]

\* m[k] read from a Go map[MapType]bool: the zero value for a missing key
Lookup(m, k) == IF k \in DOMAIN m THEN m[k] ELSE FALSE

(***************************************************************************)
(* func (t MapType) String() string                                        *)
(***************************************************************************)
\* Variant: a switch with an empty default.
StringEmptyDefault(t) ==
  CASE t = MapTypeHash -> "Hash"
    [] t = MapTypeLPMTrie -> "Longest prefix match trie"
    [] OTHER -> ""

String(t) ==
  CASE t = MapTypeHash -> "Hash"
    [] t = MapTypeArray -> "Array"
    [] t = MapTypeProgArray -> "Program array"
    [] t = MapTypePerfEventArray -> "Event array"
    [] t = MapTypePerCPUHash -> "Per-CPU hash"
    [] t = MapTypePerCPUArray -> "Per-CPU array"
    [] t = MapTypeStackTrace -> "Stack trace"
    [] t = MapTypeCgroupArray -> "Cgroup array"
    [] t = MapTypeLRUHash -> "LRU hash"
    [] t = MapTypeLRUPerCPUHash -> "LRU per-CPU hash"
    [] t = MapTypeLPMTrie -> "Longest prefix match trie"
    [] t = MapTypeArrayOfMaps -> "Array of maps"
    [] t = MapTypeHashOfMaps -> "Hash of maps"
    [] t = MapTypeDevMap -> "Device Map"
    [] t = MapTypeSockMap -> "Socket Map"
    [] t = MapTypeCPUMap -> "CPU Redirect Map"
    [] t = MapTypeSockHash -> "Socket Hash"
    [] OTHER -> "Unknown"

(***************************************************************************)
(* func (t MapType) allowsPreallocation() bool                             *)
(***************************************************************************)
allowsPreallocation(t) == IF t = MapTypeLPMTrie THEN FALSE ELSE TRUE

(***************************************************************************)
(* func (t MapType) requiresPreallocation() bool                           *)
(***************************************************************************)
\* Variant: LPMTrie missing from the case list.
requiresPreallocationNoTrie(t) ==
  IF t \in {MapTypeHash, MapTypePerCPUHash, MapTypeHashOfMaps} THEN FALSE ELSE TRUE

requiresPreallocation(t) ==
  IF t \in {MapTypeHash, MapTypePerCPUHash, MapTypeLPMTrie, MapTypeHashOfMaps}
  THEN FALSE
  ELSE TRUE

(***************************************************************************)
(* func mapTypeToFeatureString(mt MapType) string                          *)
(***************************************************************************)
\* Variant: a default case that formats a feature string too.
mapTypeToFeatureStringDefault(mt) ==
  CASE mt = MapTypeLPMTrie -> LpmLine
    [] mt = MapTypeLRUHash -> LruLine
    [] OTHER -> "#define HAVE_MAP_TYPE"

mapTypeToFeatureString(mt) ==
  CASE mt = MapTypeLPMTrie -> LpmLine
    [] mt = MapTypeLRUHash -> LruLine
    [] OTHER -> ""

(***************************************************************************)
(* ReadFeatureProbes.                                                      *)
(***************************************************************************)
\* for scanner.Scan() { ... scanner.Bytes() ... }: the lines the loop body
\* sees, which are the lines before the first one over the token limit.
RECURSIVE ScannerTokens(_)
ScannerTokens(lines) ==
  IF lines = <<>> \/ Head(lines) = LongLine
  THEN <<>>
  ELSE <<Head(lines)>> \o ScannerTokens(Tail(lines))

\* The values mapType takes in "for mapType := MapTypeHash; mapType <
\* MapTypeMaximum; mapType++".
LoopTypes == MapTypeHash..(MapTypeMaximum - 1)

\* The table such a loop leaves. The body of either loop reads and writes no
\* entry but supportedMapTypes[mapType], so the iterations do not see one
\* another: the entry of each map type is the one its own iteration leaves
\* (after[mapType] is the table after the body has run for mapType alone).
LoopTable(table, after) ==
  [mapType \in (DOMAIN table) \cup {x \in LoopTypes : x \in DOMAIN after[x]} |->
     IF mapType \in LoopTypes /\ mapType \in DOMAIN after[mapType]
     THEN after[mapType][mapType]
     ELSE table[mapType]]

\* The body of the inner loop of the scan: one map type against one line.
\* Variant: the match flips the entry instead of setting it.
ProbeLineToggle(table, line, mapType) ==
  IF mapTypeToFeatureString(mapType) # "" /\ line = mapTypeToFeatureString(mapType)
  THEN Put(table, mapType, ~Lookup(table, mapType))
  ELSE table

ProbeLine(table, line, mapType) ==
  IF mapTypeToFeatureString(mapType) # "" /\ line = mapTypeToFeatureString(mapType)
  THEN Put(table, mapType, TRUE)
  ELSE table

\* for mapType := MapTypeHash; mapType < MapTypeMaximum; mapType++, with the
\* scan's body. (LoopTable gives the table the loop leaves.)
ProbeLineAllTypes(table, line) ==
  LoopTable(table, [mapType \in LoopTypes |-> ProbeLine(table, line, mapType)])

\* for scanner.Scan() { for mapType ... }
RECURSIVE ScanLoop(_, _)
ScanLoop(table, tokens) ==
  IF tokens = <<>>
  THEN table
  ELSE ScanLoop(ProbeLineAllTypes(table, Head(tokens)), Tail(tokens))

\* The body of the second loop: record "no support" for a type that has a
\* feature string and no entry yet.
\* Variant: without the `probed` test.
RecordUnprobedAlways(table, mapType) ==
  IF mapTypeToFeatureString(mapType) = ""
  THEN table
  ELSE Put(table, mapType, FALSE)

RecordUnprobed(table, mapType) ==
  IF mapTypeToFeatureString(mapType) = ""
  THEN table
  ELSE IF mapType \notin DOMAIN table
       THEN Put(table, mapType, FALSE)
       ELSE table

\* for mapType := MapTypeHash; mapType < MapTypeMaximum; mapType++, with the
\* second loop's body.
FillLoop(table) ==
  LoopTable(table, [mapType \in LoopTypes |-> RecordUnprobed(table, mapType)])

\* The table ReadFeatureProbes leaves, from the table it found and the file.
\* Variant: the table is made anew on every call.
ProbeFresh(table, lines) ==
  FillLoop(ScanLoop(EmptyTable, ScannerTokens(lines)))

Probe(table, lines) ==
  FillLoop(ScanLoop(table, ScannerTokens(lines)))

(***************************************************************************)
(* func GetMapType(t MapType) MapType                                      *)
(***************************************************************************)
\* Variant: a missing entry read as support.
GetMapTypeAbsentIsSupported(t) ==
  IF t \in {MapTypeLPMTrie, MapTypeLRUHash}
     /\ t \in DOMAIN supportedMapTypes
     /\ ~supportedMapTypes[t]
  THEN MapTypeHash
  ELSE t

\* Variant: LPMTrie falls back to LRUHash.
GetMapTypeChained(t) ==
  IF t = MapTypeLPMTrie /\ ~Lookup(supportedMapTypes, t) THEN MapTypeLRUHash
  ELSE IF t = MapTypeLRUHash /\ ~Lookup(supportedMapTypes, t) THEN MapTypeHash
  ELSE t

GetMapType(t) ==
  IF t \in {MapTypeLPMTrie, MapTypeLRUHash} /\ ~Lookup(supportedMapTypes, t)
  THEN MapTypeHash
  ELSE t

(***************************************************************************)
(* The state after package initialisation.                                 *)
(***************************************************************************)
InitFeatures ==
  /\ supportedMapTypes = EmptyTable
  /\ alive = TRUE
  /\ input = <<>>
  /\ prevTable = EmptyTable
  /\ loaded = FALSE
  /\ repeated = FALSE
  /\ fn = "init"
  /\ arg = MapTypeUnspec
  /\ ret = ""

(***************************************************************************)
(* The calls.                                                              *)
(***************************************************************************)
\* ReadFeatureProbes(filename) on a file that opens, holding `lines`.
ReadFeatureProbes(lines) ==
  /\ alive
  /\ supportedMapTypes' = Probe(supportedMapTypes, lines)
  /\ prevTable' = supportedMapTypes
  /\ repeated' = (loaded /\ lines = input)
  /\ loaded' = TRUE
  /\ input' = lines
  /\ fn' = "ReadFeatureProbes"
  /\ arg' = MapTypeUnspec
  /\ ret' = ""
  /\ UNCHANGED <<alive, syncVars>>

\* ReadFeatureProbes(filename) on a file that cannot be opened: log.Fatal.
ReadFeatureProbesOpenError ==
  /\ alive
  /\ alive' = FALSE
  /\ fn' = "Fatal"
  /\ arg' = MapTypeUnspec
  /\ ret' = ""
  /\ UNCHANGED <<supportedMapTypes, input, prevTable, loaded, repeated, syncVars>>

CallString(t) ==
  /\ alive
  /\ fn' = "String"
  /\ arg' = t
  /\ ret' = String(t)
  /\ UNCHANGED <<featureVars, syncVars>>

CallAllowsPreallocation(t) ==
  /\ alive
  /\ fn' = "allowsPreallocation"
  /\ arg' = t
  /\ ret' = allowsPreallocation(t)
  /\ UNCHANGED <<featureVars, syncVars>>

CallRequiresPreallocation(t) ==
  /\ alive
  /\ fn' = "requiresPreallocation"
  /\ arg' = t
  /\ ret' = requiresPreallocation(t)
  /\ UNCHANGED <<featureVars, syncVars>>

CallMapTypeToFeatureString(t) ==
  /\ alive
  /\ fn' = "mapTypeToFeatureString"
  /\ arg' = t
  /\ ret' = mapTypeToFeatureString(t)
  /\ UNCHANGED <<featureVars, syncVars>>

CallGetMapType(t) ==
  /\ alive
  /\ fn' = "GetMapType"
  /\ arg' = t
  /\ ret' = GetMapType(t)
  /\ UNCHANGED <<featureVars, syncVars>>

\* GetMapType applied to the MapType the previous GetMapType call returned;
\* ret becomes the pair of the two results.
CallGetMapTypeOfResult ==
  /\ alive
  /\ fn = "GetMapType"
  /\ fn' = "GetMapType(GetMapType)"
  /\ arg' = arg
  /\ ret' = <<ret, GetMapType(ret)>>
  /\ UNCHANGED <<featureVars, syncVars>>

(***************************************************************************)
(* The map states of the error resolver (from the design description).     *)
(***************************************************************************)
\* type DesiredAction int
OK == 0
Insert == 1
Delete == 2

\* The registered maps and the keys of their entries.
Maps == {"m1", "m2"}
Keys == {"k1", "k2"}

\* The maps whose kernel operations the kernel stub lets fail. The maps share
\* no state, so one failing map next to a healthy one shows every pairing of
\* per-map states that matters; two failing maps only square the counter range.
Faulty == {"m1"}

\* Register: a fresh MapState (empty cache, zero counter, failed = false).
InitSync ==
  /\ mstate = [m \in Maps |-> "Idle"]
  /\ errorCount = [m \in Maps |-> 0]
  /\ cache = [m \in Maps |-> EmptyTable]
  /\ timers = [m \in Maps |-> 0]
  /\ passes = [m \in Maps |-> 0]

Init == InitFeatures /\ InitSync

\* The entries of a cache with an action pending.
Pending(entries) == {k \in DOMAIN entries : entries[k] \in {Insert, Delete}}

\* Register(name, kind) of a name already registered: the explicit reset. It
\* waits for a pass in progress and cancels the pending timer.
Register(m) ==
  /\ mstate[m] # "Running"
  /\ mstate' = [mstate EXCEPT ![m] = "Idle"]
  /\ errorCount' = [errorCount EXCEPT ![m] = 0]
  /\ cache' = [cache EXCEPT ![m] = EmptyTable]
  /\ timers' = [timers EXCEPT ![m] = 0]
  /\ UNCHANGED <<passes, featureVars, callVars>>

\* Variant: SetDesired arms a timer whatever the state.
SetDesiredAlwaysArms(m, k, action) ==
  /\ cache' = [cache EXCEPT ![m] = Put(cache[m], k, action)]
  /\ IF mstate[m] # "Failed"
     THEN /\ mstate' = [mstate EXCEPT ![m] = "Scheduled"]
          /\ timers' = [timers EXCEPT ![m] = @ + 1]
     ELSE UNCHANGED <<mstate, timers>>
  /\ UNCHANGED <<errorCount, passes, featureVars, callVars>>

\* SetDesired(name, key, action, value)
SetDesired(m, k, action) ==
  /\ cache' = [cache EXCEPT ![m] = Put(cache[m], k, action)]
  /\ IF mstate[m] = "Idle"
     THEN /\ mstate' = [mstate EXCEPT ![m] = "Scheduled"]
          /\ timers' = [timers EXCEPT ![m] = @ + 1]
     ELSE UNCHANGED <<mstate, timers>>
  /\ UNCHANGED <<errorCount, passes, featureVars, callVars>>

\* The timer of a map fires: Scheduled -> Running; a timer that finds the map
\* in any other state is dropped.
TimerFire(m) ==
  /\ timers[m] > 0
  /\ timers' = [timers EXCEPT ![m] = @ - 1]
  /\ IF mstate[m] = "Scheduled"
     THEN /\ mstate' = [mstate EXCEPT ![m] = "Running"]
          /\ passes' = [passes EXCEPT ![m] = @ + 1]
     ELSE UNCHANGED <<mstate, passes>>
  /\ UNCHANGED <<errorCount, cache, featureVars, callVars>>

\* The cache after a pass in which the kernel operations on `failed` failed.
Swept(entries, failed) ==
  [k \in {x \in DOMAIN entries : entries[x] # Delete \/ x \in failed} |->
     IF k \in failed THEN entries[k] ELSE OK]

\* The error counter after a pass with `n` failed entries.
CountErrors(count, n) == IF n = 0 THEN 0 ELSE count + n

\* The state a pass leaves the map in.
AfterPass(count) ==
  IF count = 0 THEN "Idle"
  ELSE IF count <= maxSyncErrors THEN "Scheduled"
  ELSE "Failed"

\* One reconciliation pass runs to its end; `failed` are the entries whose
\* kernel operation failed.
ReconcilePass(m, failed) ==
  /\ passes[m] > 0
  /\ failed \subseteq Pending(cache[m])
  /\ failed # {} => m \in Faulty
  /\ LET count == CountErrors(errorCount[m], Cardinality(failed))
     IN  /\ errorCount' = [errorCount EXCEPT ![m] = count]
         /\ mstate' = [mstate EXCEPT ![m] = AfterPass(count)]
         /\ timers' = [timers EXCEPT ![m] =
                         IF AfterPass(count) = "Scheduled" THEN @ + 1 ELSE @]
  /\ cache' = [cache EXCEPT ![m] = Swept(cache[m], failed)]
  /\ passes' = [passes EXCEPT ![m] = @ - 1]
  /\ UNCHANGED <<featureVars, callVars>>

(***************************************************************************)
(* The specifications.                                                     *)
(***************************************************************************)
\* Feature probing: any sequence of ReadFeatureProbes calls on any files.
Next ==
  \/ \E lines \in Files : ReadFeatureProbes(lines)
  \/ ReadFeatureProbesOpenError

Spec == Init /\ [][Next]_vars

\* The functions of a MapType, called before any probing or after
\* ReadFeatureProbes has read some file.
InitCalls ==
  \/ Init
  \/ /\ InitSync
     /\ \E lines \in Files :
          /\ supportedMapTypes = Probe(EmptyTable, lines)
          /\ input = lines
     /\ alive = TRUE
     /\ prevTable = EmptyTable
     /\ loaded = TRUE
     /\ repeated = FALSE
     /\ fn = "ReadFeatureProbes"
     /\ arg = MapTypeUnspec
     /\ ret = ""

NextCalls ==
  \/ \E t \in MapTypeArgs : CallString(t)
  \/ \E t \in MapTypeArgs : CallAllowsPreallocation(t)
  \/ \E t \in MapTypeArgs : CallRequiresPreallocation(t)
  \/ \E t \in MapTypeArgs : CallMapTypeToFeatureString(t)
  \/ \E t \in MapTypeArgs : CallGetMapType(t)
  \/ CallGetMapTypeOfResult

SpecCalls == InitCalls /\ [][NextCalls]_vars

\* The error resolver.
NextSync ==
  \/ \E m \in Maps : Register(m)
  \/ \E m \in Maps, k \in Keys, action \in {Insert, Delete} : SetDesired(m, k, action)
  \/ \E m \in Maps : TimerFire(m)
  \/ \E m \in Maps : \E failed \in SUBSET Keys : ReconcilePass(m, failed)

SpecSync == Init /\ [][NextSync]_vars

(***************************************************************************)
(* Properties.                                                             *)
(***************************************************************************)
ProbedKinds == {MapTypeLPMTrie, MapTypeLRUHash}

\* The line run_probes.sh writes for a probed kind.
FeatureLine(k) == IF k = MapTypeLPMTrie THEN LpmLine ELSE LruLine

\* The table marks k supported / holds the explicit value "unsupported" for k.
Supported(table, k) == k \in DOMAIN table /\ table[k] = TRUE
Unsupported(table, k) == k \in DOMAIN table /\ table[k] = FALSE

\* Some line of the file is k's feature line.
HasLine(lines, k) == \E i \in 1..Len(lines) : lines[i] = FeatureLine(k)

\* Some line of the file is k's feature line and no line before it is longer
\* than the scanner's token limit.
ReadsLine(lines, k) ==
  \E i \in 1..Len(lines) :
    /\ lines[i] = FeatureLine(k)
    /\ \A j \in 1..(i - 1) : lines[j] # LongLine

\* C1: GetMapType(k) for k in {LPMTrie, LRUHash} returns Hash whenever the
\* table does not mark k supported (k unsupported, or k without an entry, as
\* before any ReadFeatureProbes), and returns k when the table marks k
\* supported.
C1_GetMapTypeFallback ==
  (fn = "GetMapType" /\ arg \in ProbedKinds) =>
    ret = IF Supported(supportedMapTypes, arg) THEN arg ELSE MapTypeHash

C1_Witness ==
  /\ fn = "GetMapType"
  /\ arg = MapTypeLPMTrie
  /\ supportedMapTypes = EmptyTable
  /\ ret = MapTypeHash

\* C2, as claimed: after ReadFeatureProbes has run on a file, every probed
\* kind is supported if some line of the file equals its feature string, and
\* explicitly unsupported if none does.
C2_AsClaimed ==
  fn = "ReadFeatureProbes" =>
    \A k \in ProbedKinds :
      IF HasLine(input, k)
      THEN Supported(supportedMapTypes, k)
      ELSE Unsupported(supportedMapTypes, k)

\* C2, amended: after ReadFeatureProbes has run on a file, every probed kind
\* is supported if the scanner read its feature line (a line equal to the
\* feature string, with no line over the scanner's token limit before it) or
\* the table already marked it supported before the call, and explicitly
\* unsupported otherwise; from the empty table, an empty file yields both
\* unsupported and a file holding only the LPM line yields LPMTrie supported
\* and LRUHash unsupported.
C2_ReadFeatureProbes ==
  fn = "ReadFeatureProbes" =>
    /\ \A k \in ProbedKinds :
         IF ReadsLine(input, k) \/ Supported(prevTable, k)
         THEN Supported(supportedMapTypes, k)
         ELSE Unsupported(supportedMapTypes, k)
    /\ (prevTable = EmptyTable /\ input = <<>>) =>
         /\ Unsupported(supportedMapTypes, MapTypeLPMTrie)
         /\ Unsupported(supportedMapTypes, MapTypeLRUHash)
    /\ (prevTable = EmptyTable /\ input = <<LpmLine>>) =>
         /\ Supported(supportedMapTypes, MapTypeLPMTrie)
         /\ Unsupported(supportedMapTypes, MapTypeLRUHash)

C2_Witness ==
  /\ fn = "ReadFeatureProbes"
  /\ prevTable = EmptyTable
  /\ input = <<LpmLine>>
  /\ Supported(supportedMapTypes, MapTypeLPMTrie)
  /\ Unsupported(supportedMapTypes, MapTypeLRUHash)

\* C5: whatever ReadFeatureProbes calls have run, the table holds entries only
\* for the kinds with a feature string (LPMTrie, LRUHash), and GetMapType
\* returns every other kind unchanged.
C5_OnlyProbedKinds ==
  /\ DOMAIN supportedMapTypes \subseteq ProbedKinds
  /\ \A k \in MapTypeArgs \ ProbedKinds : GetMapType(k) = k

C5_Witness ==
  /\ fn = "ReadFeatureProbes"
  /\ \E i \in 1..Len(input) : input[i] = ""
  /\ DOMAIN supportedMapTypes = ProbedKinds
  /\ prevTable # EmptyTable

\* C6: a ReadFeatureProbes that reads the same input as the call before it
\* leaves the table as that call left it.
C6_Idempotent == repeated => supportedMapTypes = prevTable

C6_Witness ==
  /\ repeated
  /\ input = <<LruLine, LpmLine>>
  /\ Supported(supportedMapTypes, MapTypeLPMTrie)
  /\ Supported(supportedMapTypes, MapTypeLRUHash)

\* C7: GetMapType applied to its own result returns that result again, for
\* every MapType and every table.
C7_GetMapTypeIdempotent ==
  fn = "GetMapType(GetMapType)" => ret[2] = ret[1]

C7_Witness ==
  /\ fn = "GetMapType(GetMapType)"
  /\ arg = MapTypeLPMTrie
  /\ Unsupported(supportedMapTypes, MapTypeLPMTrie)
  /\ Unsupported(supportedMapTypes, MapTypeLRUHash)
  /\ ret = <<MapTypeHash, MapTypeHash>>

\* C8: String returns a non-empty string for every MapType, "Unknown" for
\* every value outside the enumeration, and allowsPreallocation is false for
\* LPMTrie and for no other kind.
C8_StringAndAllows ==
  /\ fn = "String" =>
       /\ ret # ""
       /\ arg \notin MapKinds => ret = "Unknown"
  /\ fn = "allowsPreallocation" => (ret = FALSE <=> arg = MapTypeLPMTrie)

C8_Witness ==
  /\ fn = "String"
  /\ arg = MapTypeMaximum
  /\ ret = "Unknown"

\* C9: requiresPreallocation is false for Hash, PerCPUHash, LPMTrie and
\* HashOfMaps and true for every other value, so no kind requires
\* preallocation without allowing it.
C9_RequiresPreallocation ==
  fn = "requiresPreallocation" =>
    /\ ret = FALSE <=>
         arg \in {MapTypeHash, MapTypePerCPUHash, MapTypeLPMTrie, MapTypeHashOfMaps}
    /\ ~(ret = TRUE /\ allowsPreallocation(arg) = FALSE)

C9_Witness ==
  /\ fn = "requiresPreallocation"
  /\ arg = MapTypeLPMTrie
  /\ ret = FALSE

\* C10: across ReadFeatureProbes calls the table only gains support: a kind
\* marked supported stays supported, no entry is removed, and GetMapType(k),
\* once it returns k, never falls back to Hash again.
C10_Step ==
  /\ DOMAIN supportedMapTypes \subseteq DOMAIN supportedMapTypes'
  /\ \A k \in ProbedKinds :
       /\ Supported(supportedMapTypes, k) => Supported(supportedMapTypes', k)
       /\ GetMapType(k) = k => GetMapType(k)' = k

C10_SupportOnlyGained == [][C10_Step]_vars

C10_Witness ==
  /\ fn = "ReadFeatureProbes"
  /\ Supported(prevTable, MapTypeLRUHash)
  /\ ~HasLine(input, MapTypeLRUHash)
  /\ Len(input) > 0
  /\ Supported(supportedMapTypes, MapTypeLRUHash)

\* C3: a map is Failed exactly when its error counter exceeds 512 (513 or
\* more, never 512), a pass that leaves no entry pending resets the counter to
\* 0 and leaves the map Idle, and no pass is started for a Failed map.
C3_Inv ==
  \A m \in Maps : mstate[m] = "Failed" <=> errorCount[m] > 512

C3_Step ==
  \A m \in Maps :
    /\ (passes'[m] < passes[m] /\ Pending(cache'[m]) = {}) =>
         (errorCount'[m] = 0 /\ mstate'[m] = "Idle")
    /\ mstate[m] = "Failed" =>
         (passes'[m] = passes[m] /\ mstate'[m] \in {"Failed", "Idle"})

C3_FailedAboveCeiling == []C3_Inv /\ [][C3_Step]_vars

C3_Witness ==
  /\ mstate["m1"] = "Failed"
  /\ errorCount["m1"] = 513
  /\ passes["m1"] = 0
  /\ timers["m1"] = 0

\* C4: a map never has more than one pass in progress, and never a timer
\* armed next to another timer or next to a pass in progress (a SetDesired
\* that finds the map Scheduled or Running arms nothing); two different maps
\* can be Running at once.
C4_OnePassPerMap ==
  \A m \in Maps :
    /\ passes[m] <= 1
    /\ timers[m] + passes[m] <= 1
    /\ passes[m] = 1 <=> mstate[m] = "Running"
    /\ timers[m] = 1 <=> mstate[m] = "Scheduled"

C4_Witness ==
  /\ \A m \in Maps : mstate[m] = "Running" /\ passes[m] = 1
  /\ errorCount["m1"] > 0

====
